---- MODULE Spec2Model ----
(***************************************************************************)
(* A model of utils.py of hfsoftmax: checkpoint persistence (save_ckpt,   *)
(* load_ckpt, simplify_ckpt), the AverageMeter, feature-vector file I/O    *)
(* (read_feat, write_feat), normalize and save_imgs.                       *)
(*                                                                         *)
(* The utilities are independent of each other, so each facility has its   *)
(* own specification over its own variables; the variables of the other    *)
(* facilities stay at their initial values:                                *)
(*   SpecSave      save_ckpt step by step, with a reader of the best link  *)
(*   SpecLoad      save_ckpt and load_ckpt as whole calls                  *)
(*   SpecSimplify  save_ckpt and simplify_ckpt as whole calls              *)
(*   SpecMeter     AverageMeter                                            *)
(*   SpecFeat      write_feat and read_feat                                *)
(*   SpecMisc      normalize and save_imgs                                 *)
(***************************************************************************)
EXTENDS Integers, Sequences, FiniteSets, TLC

VARIABLES
    \* ---- the checkpoint folder (save_ckpt, load_ckpt, simplify_ckpt)
    trainState,   \* the in-memory `state` the training loop hands to save_ckpt
    folder,       \* whether os.path.dirname(ckpt) exists
    disk,         \* regular files of the folder: name -> [obj, whole]
    link,         \* target of the symlink model_best.pth.tar, or NoLink
    pc,           \* position of the running save_ckpt call
    argEpoch,     \* `epoch` of the running (or last) save_ckpt call
    argBest,      \* `is_best` of the running (or last) save_ckpt call
    saveErr,      \* exception raised by the last save_ckpt call
    seen,         \* what a reader following model_best.pth.tar last found
    lastBest,     \* epoch of the most recent call with is_best (0: none yet)
    linkAtCall,   \* the link as it was when the running call started
    \* ---- load_ckpt
    modelParams,  \* the live model's parameters: name -> tensor
    optimState,   \* the live optimizer's state
    loadOut,      \* outcome of the last load_ckpt call
    \* ---- simplify_ckpt
    simpOut,      \* outcome of the last simplify_ckpt call
    \* ---- AverageMeter
    length, history, val, avg,
    meterErr,     \* exception raised by the last update
    pushed,       \* every value passed to update since the last reset
    \* ---- read_feat / write_feat
    featArr,      \* the in-memory `features` array handed to write_feat
    featFile,     \* the feature file: whether it exists, and its elements
    readOut,      \* outcome of the last read_feat call
    \* ---- normalize / save_imgs
    normOut,      \* outcome of the last normalize call
    imgDir,       \* whether ofolder exists
    imgFiles,     \* files of ofolder: name -> encoded image
    imgOut        \* outcome of the last save_imgs call

ckptVars  == <<trainState, folder, disk, link, pc, argEpoch, argBest, saveErr,
               seen, lastBest, linkAtCall>>
loadVars  == <<modelParams, optimState, loadOut>>
simpVars  == <<simpOut>>
meterVars == <<length, history, val, avg, meterErr, pushed>>
featVars  == <<featArr, featFile, readOut>>
miscVars  == <<normOut, imgDir, imgFiles, imgOut>>
vars == <<ckptVars, loadVars, simpVars, meterVars, featVars, miscVars>>
\* What the checkpoint operations never touch.
notCkpt == <<meterVars, featVars, miscVars>>

(***************************************************************************)
(* Bounds of the model.                                                    *)
(***************************************************************************)
MaxEpoch == 2      \* epochs passed to save_ckpt: 1..MaxEpoch
MaxIgnores == 3    \* longest `ignores` list
MaxLength == 2     \* largest AverageMeter length
MaxUpdates == 4    \* update calls between two resets
MaxMeterVal == 2   \* values passed to update: 0..MaxMeterVal
MaxInst == 2       \* rows of a feature matrix, and inst_num
MaxDim == 2        \* columns of a feature matrix, and feat_dim
MaxImgs == 2       \* longest image list given to save_imgs

(***************************************************************************)
(* Values.                                                                 *)
(***************************************************************************)
NoLink == "<no link>"
NoFile == [exists |-> FALSE, elems |-> <<>>]
FileOf(elems) == [exists |-> TRUE, elems |-> elems]
None == "None"
NoErr == "no error"

\* Parameter names of the model and the tensors they may hold.  T0 is the
\* value of a parameter that was never loaded.
ParamNames == {"base.weight", "fc.weight"}
Tensors == {"T1", "T2"}
InitTensor == "T0"

StateDicts == UNION {[K -> Tensors] : K \in SUBSET ParamNames}

\* The checkpoints of section 3: a mapping with state_dict and, for a training
\* checkpoint, optimizer, epoch, best_prec1 (and one further key).
WeightsOnly(sd) == [state_dict |-> sd]
Training(sd) ==
    [state_dict |-> sd, optimizer |-> "optim@save", epoch |-> 5,
     best_prec1 |-> 90, arch |-> "resnet"]
Checkpoints == {WeightsOnly(sd) : sd \in StateDicts} \cup {Training(sd) : sd \in StateDicts}

\* Variant of DelKey: the key stays.
DelKeyNothing(m, key) == m
\* del mapping[key]
DelKey(m, key) == [k \in DOMAIN m \ {key} |-> m[k]]

Range(s) == {s[i] : i \in DOMAIN s}

(***************************************************************************)
(* File names of save_ckpt.  The prefix `ckpt` is "work/ckpt": its folder  *)
(* is "work", its basename "ckpt".  Names are relative to the folder.      *)
(***************************************************************************)
Basename == "ckpt"
Epochs == 1..MaxEpoch
Fn(epoch) == Basename \o "_epoch_" \o ToString(epoch) \o ".pth.tar"
BestFn == "model_best.pth.tar"

\* The file a name leads to: the symlink is followed, every other name is itself.
Resolve(lnk, name) == IF name = BestFn THEN lnk ELSE name
\* os.path.exists / os.path.isfile: both follow the symlink, so a dangling
\* link does not exist.
PathExists(d, lnk, name) == Resolve(lnk, name) \in DOMAIN d

\* torch.save(obj, path): the file is opened for writing (created or
\* truncated), then the serialized object is streamed into it.
TorchSaveOpen(d, lnk, path, obj) ==
    LET f == Resolve(lnk, path)
    IN  [n \in DOMAIN d \cup {f} |-> IF n = f THEN [obj |-> obj, whole |-> FALSE] ELSE d[n]]
TorchSaveClose(d, lnk, path) ==
    LET f == Resolve(lnk, path)
    IN  [d EXCEPT ![f] = [@ EXCEPT !.whole = TRUE]]
TorchSave(d, lnk, path, obj) == TorchSaveClose(TorchSaveOpen(d, lnk, path, obj), lnk, path)

\* Variant of UnlinkBest: the old link is not removed.
UnlinkBestBroken(d, lnk) == lnk
\* if os.path.exists(best_fn): os.unlink(best_fn)
UnlinkBest(d, lnk) == IF PathExists(d, lnk, BestFn) THEN NoLink ELSE lnk

\* os.symlink(fn, best_fn): fails when best_fn is still there.
SymlinkErr(lnk) == IF lnk # NoLink THEN "FileExistsError" ELSE NoErr
Symlink(lnk, fn) == IF lnk # NoLink THEN lnk ELSE fn

(***************************************************************************)
(* save_ckpt, step by step.                                                *)
(***************************************************************************)
\* lines 68-73: the call starts; the folder is created when it is absent.
SaveCall(epoch, is_best) ==
    /\ pc = "idle"
    /\ argEpoch' = epoch
    /\ argBest' = is_best
    /\ folder' = TRUE
    /\ saveErr' = NoErr
    /\ lastBest' = IF is_best THEN epoch ELSE lastBest
    /\ linkAtCall' = link
    /\ pc' = "save"
    /\ UNCHANGED <<trainState, disk, link, seen>>
    /\ UNCHANGED <<loadVars, simpVars, notCkpt>>

\* line 74: torch.save opens the versioned file ...
SaveWriteBegin ==
    /\ pc = "save"
    /\ disk' = TorchSaveOpen(disk, link, Fn(argEpoch), trainState)
    /\ pc' = "writing"
    /\ UNCHANGED <<trainState, folder, link, argEpoch, argBest, saveErr, seen,
                   lastBest, linkAtCall>>
    /\ UNCHANGED <<loadVars, simpVars, notCkpt>>

\* ... and finishes writing it; line 75 decides whether the link moves.
SaveWriteEnd ==
    /\ pc = "writing"
    /\ disk' = TorchSaveClose(disk, link, Fn(argEpoch))
    /\ pc' = IF argBest THEN "unlink" ELSE "idle"
    /\ UNCHANGED <<trainState, folder, link, argEpoch, argBest, saveErr, seen,
                   lastBest, linkAtCall>>
    /\ UNCHANGED <<loadVars, simpVars, notCkpt>>

\* lines 76-78
SaveUnlink ==
    /\ pc = "unlink"
    /\ link' = UnlinkBest(disk, link)
    /\ pc' = "symlink"
    /\ UNCHANGED <<trainState, folder, disk, argEpoch, argBest, saveErr, seen,
                   lastBest, linkAtCall>>
    /\ UNCHANGED <<loadVars, simpVars, notCkpt>>

\* line 79
SaveSymlink ==
    /\ pc = "symlink"
    /\ saveErr' = SymlinkErr(link)
    /\ link' = Symlink(link, Fn(argEpoch))
    /\ pc' = "idle"
    /\ UNCHANGED <<trainState, folder, disk, argEpoch, argBest, seen, lastBest,
                   linkAtCall>>
    /\ UNCHANGED <<loadVars, simpVars, notCkpt>>

\* A reader opens model_best.pth.tar at any moment of a running save_ckpt.
ReaderFollow ==
    /\ seen' = IF link = NoLink THEN "no link"
               ELSE IF link \notin DOMAIN disk THEN "dangling"
               ELSE IF disk[link].whole THEN "whole" ELSE "half-written"
    /\ UNCHANGED <<trainState, folder, disk, link, pc, argEpoch, argBest, saveErr,
                   lastBest, linkAtCall>>
    /\ UNCHANGED <<loadVars, simpVars, notCkpt>>

(***************************************************************************)
(* save_ckpt as one call (lines 67-79), when nothing runs beside it.       *)
(***************************************************************************)
SaveCkpt(epoch, is_best) ==
    LET written == TorchSave(disk, link, Fn(epoch), trainState)
        unlinked == UnlinkBest(written, link)
    IN  /\ pc = "idle"
        /\ folder' = TRUE
        /\ disk' = written
        /\ link' = IF is_best THEN Symlink(unlinked, Fn(epoch)) ELSE link
        /\ saveErr' = IF is_best THEN SymlinkErr(unlinked) ELSE NoErr
        /\ UNCHANGED <<trainState, pc, argEpoch, argBest, seen, lastBest, linkAtCall>>
        /\ UNCHANGED <<loadVars, simpVars, notCkpt>>

(***************************************************************************)
(* load_ckpt (lines 82-112).  Python runs with its assert statements on    *)
(* (no -O), so a failed assert raises AssertionError.                      *)
(***************************************************************************)
\* The `ignores` lists: any names, in any order, repeated or not.
IgnoreLists == UNION {[1..n -> ParamNames] : n \in 0..MaxIgnores}

Distinct(s) == \A i, j \in DOMAIN s : s[i] = s[j] => i = j

\* lines 92-98 (and 129-138): the loop over `ignores`.  `keys` is the key set
\* taken before the loop; sd is the state_dict the loop deletes from.
RECURSIVE IgnoreLoop(_, _, _, _)
IgnoreLoop(sd, keys, ignores, i) ==
    IF i > Len(ignores) THEN [sd |-> sd, err |-> NoErr, key |-> None]
    ELSE IF ignores[i] \in keys
         THEN IF ignores[i] \in DOMAIN sd
              THEN IgnoreLoop(DelKey(sd, ignores[i]), keys, ignores, i + 1)
              ELSE [sd |-> sd, err |-> "KeyError", key |-> ignores[i]]
         ELSE [sd |-> sd, err |-> "ValueError", key |-> ignores[i]]

\* Variant of IgnoreLoop: a missing name is skipped, not raised.
RECURSIVE IgnoreLoopLenient(_, _, _, _)
IgnoreLoopLenient(sd, keys, ignores, i) ==
    IF i > Len(ignores) THEN [sd |-> sd, err |-> NoErr, key |-> None]
    ELSE IF ignores[i] \in keys
         THEN IF ignores[i] \in DOMAIN sd
              THEN IgnoreLoopLenient(DelKey(sd, ignores[i]), keys, ignores, i + 1)
              ELSE [sd |-> sd, err |-> "KeyError", key |-> ignores[i]]
         ELSE IgnoreLoopLenient(sd, keys, ignores, i + 1)

\* Variant of DropIgnores, over the lenient loop.
DropIgnoresLenient(sd, ignores) == IgnoreLoopLenient(sd, DOMAIN sd, ignores, 1)
\* lines 91-98: keys = set(checkpoint['state_dict'].keys()), then the loop.
DropIgnores(sd, ignores) == IgnoreLoop(sd, DOMAIN sd, ignores, 1)

\* model.load_state_dict(sd, strict): every parameter the state_dict names is
\* copied into the model; with strict, a difference between the two key sets
\* is then raised.
LoadStateDict(params, sd) ==
    [k \in DOMAIN params |-> IF k \in DOMAIN sd THEN sd[k] ELSE params[k]]
LoadStateDictErr(params, sd, strict) ==
    IF strict /\ DOMAIN sd # DOMAIN params THEN "RuntimeError" ELSE NoErr

\* The outcome of a call that raised before load_state_dict.
LoadRaised(err, key) ==
    [err |-> err, errKey |-> key, reached |-> FALSE, handed |-> <<>>,
     ret |-> <<>>, warned |-> {}, params |-> modelParams, optim |-> optimState]

\* lines 99-110, with the state_dict that is left.  ret is the returned
\* tuple, or <<>> for a call that returns nothing.
LoadApply(checkpoint, sd, strict, optimizer) ==
    LET loaded == [err |-> NoErr, errKey |-> None, reached |-> TRUE, handed |-> sd,
                   ret |-> <<>>, warned |-> {},
                   params |-> LoadStateDict(modelParams, sd), optim |-> optimState]
    IN  IF LoadStateDictErr(modelParams, sd, strict) # NoErr
        THEN [loaded EXCEPT !.err = "RuntimeError"]
        ELSE LET warned == IF strict THEN {} ELSE DOMAIN modelParams \ DOMAIN sd
             IN  IF ~optimizer THEN [loaded EXCEPT !.warned = warned]
                 ELSE IF "optimizer" \notin DOMAIN checkpoint
                 THEN [loaded EXCEPT !.warned = warned, !.err = "KeyError",
                                     !.errKey = "optimizer"]
                 ELSE [loaded EXCEPT !.warned = warned,
                                     !.optim = checkpoint.optimizer,
                                     !.ret = <<checkpoint.epoch, checkpoint.best_prec1>>]

\* lines 86-112
LoadResult(path, ignores, strict, optimizer) ==
    IF ~PathExists(disk, link, path)
    THEN LoadRaised("AssertionError: no checkpoint found", None)
    ELSE LET checkpoint == disk[Resolve(link, path)].obj
         IN  IF Len(ignores) > 0
             THEN IF optimizer
                  THEN LoadRaised("AssertionError", None)
                  ELSE LET left == DropIgnores(checkpoint.state_dict, ignores)
                       IN  IF left.err # NoErr
                           THEN LoadRaised(left.err, left.key)
                           ELSE LoadApply(checkpoint, left.sd, strict, optimizer)
             ELSE LoadApply(checkpoint, checkpoint.state_dict, strict, optimizer)

LoadPaths == {Fn(e) : e \in Epochs} \cup {BestFn}

\* One call of load_ckpt, into the model and optimizer as constructed.  The
\* call reads the folder and writes only the live model and optimizer, none of
\* which decides what a later call does, so a behaviour follows one call.
LoadCkpt(path, ignores, strict, optimizer) ==
    LET out == LoadResult(path, ignores, strict, optimizer)
    IN  /\ pc = "idle"
        /\ loadOut.err = "not called"
        /\ modelParams' = out.params
        /\ optimState' = out.optim
        /\ loadOut' = [err |-> out.err, errKey |-> out.errKey, reached |-> out.reached,
                       handed |-> out.handed, ret |-> out.ret, warned |-> out.warned,
                       path |-> path, ignores |-> ignores, strict |-> strict,
                       optimizer |-> optimizer,
                       isfile |-> PathExists(disk, link, path),
                       before |-> modelParams]
        /\ UNCHANGED <<ckptVars, simpVars, notCkpt>>

(***************************************************************************)
(* simplify_ckpt (lines 115-144).                                          *)
(***************************************************************************)
\* Variant of StripKeys: no key is deleted.
StripKeysNone(checkpoint) == checkpoint
\* lines 122-126: every key but state_dict is deleted.
StripKeys(checkpoint) ==
    [k \in DOMAIN checkpoint \cap {"state_dict"} |-> checkpoint[k]]

\* lines 139-140
OutPath(path, opath) == IF opath = "" THEN path \o "_simplified" ELSE opath

\* lines 119-144: the error raised, the key it names, the name written to
\* (None when nothing is written) and the files afterwards.
SimplifyResult(path, opath, ignores) ==
    IF ~PathExists(disk, link, path)
    THEN [err |-> "AssertionError: no checkpoint found", errKey |-> None,
          out |-> None, disk |-> disk]
    ELSE LET checkpoint == StripKeys(disk[Resolve(link, path)].obj)
             left == DropIgnores(checkpoint.state_dict, ignores)
         IN  IF left.err # NoErr
             THEN [err |-> left.err, errKey |-> left.key, out |-> None, disk |-> disk]
             ELSE [err |-> NoErr, errKey |-> None, out |-> OutPath(path, opath),
                   disk |-> TorchSave(disk, link, OutPath(path, opath),
                                      [checkpoint EXCEPT !.state_dict = left.sd])]

DeployFn == "deploy.pth.tar"
\* opath: left empty, the input path itself, or another name.
OutPaths(path) == {"", path, DeployFn}

\* One call of simplify_ckpt; the link at the call and the files before and
\* after it are kept.
SimplifyCkpt(path, opath, ignores) ==
    LET out == SimplifyResult(path, opath, ignores)
    IN  /\ pc = "idle"
        /\ simpOut.err = "not called"
        /\ disk' = out.disk
        /\ simpOut' = [err |-> out.err, errKey |-> out.errKey, out |-> out.out,
                       path |-> path, opath |-> opath, ignores |-> ignores,
                       isfile |-> PathExists(disk, link, path), link |-> link,
                       before |-> disk, after |-> out.disk]
        /\ UNCHANGED <<trainState, folder, link, pc, argEpoch, argBest, saveErr, seen,
                       lastBest, linkAtCall>>
        /\ UNCHANGED <<loadVars, notCkpt>>

(***************************************************************************)
(* AverageMeter (lines 30-47).                                             *)
(***************************************************************************)
RECURSIVE SumOf(_)
SumOf(s) == IF s = <<>> THEN 0 ELSE s[1] + SumOf(Tail(s))

\* np.mean(history), kept exact as the fraction num/den (the rounding of
\* float64 is left out).
MeanOf(h) == [num |-> SumOf(h), den |-> Len(h)]

\* Variant of Evict: the oldest value goes as soon as `length` is reached.
EvictAtLength(h, len) == IF Len(h) >= len THEN Tail(h) ELSE h
\* lines 43-44: del self.history[0] when the history outgrew `length`.
Evict(h, len) == IF Len(h) > len THEN Tail(h) ELSE h

\* reset (lines 36-39)
MeterReset ==
    /\ history' = <<>>
    /\ val' = 0
    /\ avg' = MeanOf(<<0>>)
    /\ meterErr' = NoErr
    /\ pushed' = <<>>
    /\ UNCHANGED length
    /\ UNCHANGED <<ckptVars, loadVars, simpVars, featVars, miscVars>>

\* update (lines 41-47).  With length <= 0 the history is empty again after
\* line 44 and self.history[-1] raises; val and avg keep their values.
MeterUpdate(v) ==
    LET kept == Evict(Append(history, v), length)
    IN  /\ Len(pushed) < MaxUpdates
        /\ pushed' = Append(pushed, v)
        /\ history' = kept
        /\ IF kept = <<>>
           THEN /\ meterErr' = "IndexError"
                /\ UNCHANGED <<val, avg>>
           ELSE /\ meterErr' = NoErr
                /\ val' = kept[Len(kept)]
                /\ avg' = MeanOf(kept)
        /\ UNCHANGED length
        /\ UNCHANGED <<ckptVars, loadVars, simpVars, featVars, miscVars>>

(***************************************************************************)
(* numpy arrays: shape and data.  A 2-D array holds its rows, a 1-D array  *)
(* its elements.                                                           *)
(***************************************************************************)
\* Two float32 values; no operation on a feature file looks at an element.
Elems == {0, 1}
Matrix(rows) == [shape |-> <<Len(rows), Len(rows[1])>>, data |-> rows]
Vector(elems) == [shape |-> <<Len(elems)>>, data |-> elems]
Matrices ==
    UNION {{Matrix(rows) : rows \in [1..n -> [1..d -> Elems]]} :
              n \in 1..MaxInst, d \in 1..MaxDim}

(***************************************************************************)
(* write_feat and read_feat (lines 202-217).                               *)
(***************************************************************************)
RECURSIVE Concat(_)
Concat(rows) == IF rows = <<>> THEN <<>> ELSE rows[1] \o Concat(Tail(rows))

\* Variant of ToFile: the elements in column-major order.
ToFileColumnMajor(arr) ==
    Concat([j \in 1..arr.shape[2] |-> [i \in 1..arr.shape[1] |-> arr.data[i][j]]])
\* ndarray.tofile: the elements in C (row-major) order, nothing else.
ToFile(arr) == Concat(arr.data)

\* np.fromfile(path, count): `count` elements, all of them for -1; a file
\* that holds fewer gives a shorter array, without an error.
FromFile(file, count) ==
    IF count = -1 \/ count >= Len(file) THEN file ELSE SubSeq(file, 1, count)

\* ndarray.reshape(inst_num, feat_dim) of a 1-D array; -1 stands for the
\* row count the size gives.  The sizes must agree.
ReshapeOk(flat, inst_num, feat_dim) ==
    IF inst_num = -1 THEN Len(flat) % feat_dim = 0
    ELSE inst_num * feat_dim = Len(flat)
Reshape(flat, inst_num, feat_dim) ==
    LET n == IF inst_num = -1 THEN Len(flat) \div feat_dim ELSE inst_num
    IN  [shape |-> <<n, feat_dim>>,
         data |-> [i \in 1..n |-> SubSeq(flat, (i - 1) * feat_dim + 1, i * feat_dim)]]

\* lines 204-206
ReadCount(inst_num, feat_dim) == IF inst_num > 0 THEN inst_num * feat_dim ELSE -1

\* read_feat (lines 202-212)
ReadResult(inst_num, feat_dim) ==
    LET raised(e) == [err |-> e, shape |-> <<>>, data |-> <<>>]
    IN  IF ~((inst_num > 0 \/ inst_num = -1) /\ feat_dim > 0)
        THEN raised("AssertionError")
        ELSE IF ~featFile.exists THEN raised("FileNotFoundError")
        ELSE LET probs == FromFile(featFile.elems, ReadCount(inst_num, feat_dim))
             IN  IF feat_dim > 1
                 THEN IF ReshapeOk(probs, inst_num, feat_dim)
                      THEN [err |-> NoErr] @@ Reshape(probs, inst_num, feat_dim)
                      ELSE raised("ValueError")
                 ELSE [err |-> NoErr] @@ Vector(probs)

\* write_feat (lines 215-217)
WriteFeat ==
    /\ featFile' = FileOf(ToFile(featArr))
    /\ UNCHANGED <<featArr, readOut>>
    /\ UNCHANGED <<ckptVars, loadVars, simpVars, meterVars, miscVars>>

ReadFeat(inst_num, feat_dim) ==
    LET out == ReadResult(inst_num, feat_dim)
    IN  /\ readOut' = [err |-> out.err, shape |-> out.shape, data |-> out.data,
                       inst_num |-> inst_num, feat_dim |-> feat_dim,
                       isfile |-> featFile.exists, file |-> featFile.elems]
        /\ UNCHANGED <<featArr, featFile>>
        /\ UNCHANGED <<ckptVars, loadVars, simpVars, meterVars, miscVars>>

(***************************************************************************)
(* normalize (lines 147-153).  A quotient x / sqrt(q) is kept exact as the *)
(* pair <<x, q>>, q being the sum of squares that np.linalg.norm roots.    *)
(***************************************************************************)
Coords == {0, 1}
NormInputs ==
    UNION {{Vector(e) : e \in [1..n -> Coords]} : n \in 1..MaxInst}
    \cup UNION {{Matrix(rows) : rows \in [1..n -> [1..d -> Coords]]} :
                   n \in 1..MaxInst, d \in 1..MaxDim}
\* axis values: the two the function knows, a third axis, and the last axis.
Axes == {0, 1, 2, -1}

SumSq(s) == SumOf([i \in DOMAIN s |-> s[i] * s[i]])
Column(feat, j) == [i \in 1..feat.shape[1] |-> feat.data[i][j]]

\* The value normalize returns: an array, or None when no return is reached.
NormalizeResult(feat, axis) ==
    IF Len(feat.shape) = 1
    THEN [ret |-> "array", shape |-> feat.shape,
          data |-> [i \in DOMAIN feat.data |-> <<feat.data[i], SumSq(feat.data)>>]]
    ELSE IF axis = 0
    THEN [ret |-> "array", shape |-> feat.shape,
          data |-> [i \in 1..feat.shape[1] |-> [j \in 1..feat.shape[2] |->
                       <<feat.data[i][j], SumSq(Column(feat, j))>>]]]
    ELSE IF axis = 1
    THEN [ret |-> "array", shape |-> feat.shape,
          data |-> [i \in 1..feat.shape[1] |-> [j \in 1..feat.shape[2] |->
                       <<feat.data[i][j], SumSq(feat.data[i])>>]]]
    ELSE [ret |-> None, shape |-> <<>>, data |-> <<>>]

\* normalize never raises: it holds no raise statement.
Normalize(feat, axis) ==
    LET out == NormalizeResult(feat, axis)
    IN  /\ normOut' = [err |-> NoErr, ret |-> out.ret, shape |-> out.shape,
                       data |-> out.data, feat |-> feat, axis |-> axis]
        /\ UNCHANGED <<imgDir, imgFiles, imgOut>>
        /\ UNCHANGED <<ckptVars, loadVars, simpVars, meterVars, featVars>>

(***************************************************************************)
(* save_imgs (lines 179-190).                                              *)
(***************************************************************************)
Images == {"imgA", "imgB"}
ImageLists == UNION {[1..n -> Images] : n \in 0..MaxImgs}

\* "{}.jpg".format(i) for the i-th image, counted from 0.
JpgName(i) == ToString(i) \o ".jpg"
\* img.save(opath, "JPEG")
Jpeg(img) == <<"JPEG", img>>

\* lines 182-187: the files of ofolder after the loop.
WriteImgs(files, imgs) ==
    LET names == {JpgName(i - 1) : i \in DOMAIN imgs}
    IN  [n \in DOMAIN files \cup names |->
            IF n \in names
            THEN Jpeg(imgs[CHOOSE i \in DOMAIN imgs : JpgName(i - 1) = n])
            ELSE files[n]]

\* lines 188-190: the loop holds no break, so its else clause always runs; the
\* message it formats reads `axis`, a name that save_imgs does not define.
SaveImgsErr(imgs) == "NameError"

SaveImgs(imgs) ==
    /\ imgDir' = (imgDir \/ imgs # <<>>)
    /\ imgFiles' = WriteImgs(imgFiles, imgs)
    /\ imgOut' = [err |-> SaveImgsErr(imgs), imgs |-> imgs]
    /\ UNCHANGED normOut
    /\ UNCHANGED <<ckptVars, loadVars, simpVars, meterVars, featVars>>

(***************************************************************************)
(* Initial values of each facility.                                        *)
(***************************************************************************)
CkptInit ==
    /\ trainState \in Checkpoints
    /\ folder \in BOOLEAN
    /\ disk = <<>>
    /\ link = NoLink
    /\ pc = "idle"
    /\ argEpoch = 0
    /\ argBest = FALSE
    /\ saveErr = NoErr
    /\ seen = "unread"
    /\ lastBest = 0
    /\ linkAtCall = NoLink

CkptIdle ==
    /\ trainState = WeightsOnly(<<>>)
    /\ folder = FALSE
    /\ disk = <<>>
    /\ link = NoLink
    /\ pc = "idle"
    /\ argEpoch = 0
    /\ argBest = FALSE
    /\ saveErr = NoErr
    /\ seen = "unread"
    /\ lastBest = 0
    /\ linkAtCall = NoLink

LoadInit ==
    /\ modelParams = [k \in ParamNames |-> InitTensor]
    /\ optimState = "optim@init"
    /\ loadOut = [err |-> "not called"]

SimpInit == simpOut = [err |-> "not called"]

MeterIdle ==
    /\ length = 1
    /\ history = <<>>
    /\ val = 0
    /\ avg = MeanOf(<<0>>)
    /\ meterErr = NoErr
    /\ pushed = <<>>

FeatInit ==
    /\ featArr \in Matrices
    /\ featFile = NoFile
    /\ readOut = [err |-> "not called"]

FeatIdle ==
    /\ featArr = Matrix(<<<<0>>>>)
    /\ featFile = NoFile
    /\ readOut = [err |-> "not called"]

MeterInit ==
    /\ length \in 0..MaxLength
    /\ history = <<>>
    /\ val = 0
    /\ avg = MeanOf(<<0>>)
    /\ meterErr = NoErr
    /\ pushed = <<>>

MiscInit ==
    /\ normOut = [err |-> "not called"]
    /\ imgDir \in BOOLEAN
    /\ imgFiles = <<>>
    /\ imgOut = [err |-> "not called"]

MiscIdle ==
    /\ normOut = [err |-> "not called"]
    /\ imgDir = FALSE
    /\ imgFiles = <<>>
    /\ imgOut = [err |-> "not called"]

(***************************************************************************)
(* SpecSave: save_ckpt calls run one after the other, each step by step,   *)
(* while a reader follows the best link.                                   *)
(***************************************************************************)
InitSave == CkptInit /\ LoadInit /\ SimpInit /\ MeterIdle /\ FeatIdle /\ MiscIdle

NextSave ==
    \/ \E epoch \in Epochs, is_best \in BOOLEAN : SaveCall(epoch, is_best)
    \/ SaveWriteBegin
    \/ SaveWriteEnd
    \/ SaveUnlink
    \/ SaveSymlink
    \/ ReaderFollow

SpecSave == InitSave /\ [][NextSave]_vars

\* C1: after any sequence of save_ckpt calls on one prefix, once a call had
\* is_best the link model_best.pth.tar exists and points at the versioned file
\* of the most recent such call, which is fully written; a call without is_best
\* leaves the link as it found it; no call raises.
C1_BestLinkFollowsLastBest ==
    /\ (pc = "idle" /\ lastBest # 0) =>
          /\ link = Fn(lastBest)
          /\ link \in DOMAIN disk
          /\ disk[link].whole
    /\ (pc = "idle" /\ lastBest = 0) => link = NoLink
    /\ ~argBest => link = linkAtCall
    /\ saveErr = NoErr

\* A second best checkpoint replaced the link of the first, and a later call
\* without is_best has returned.
C1_Witness ==
    /\ pc = "idle"
    /\ ~argBest
    /\ lastBest # 0
    /\ argEpoch # lastBest
    /\ link = Fn(lastBest)
    /\ Cardinality(DOMAIN disk) >= 2

\* C2: a reader that follows model_best.pth.tar while save_ckpt runs finds no
\* link or a fully written versioned file, never a half-written one.
C2_ReaderNeverSeesHalfWritten == seen \in {"unread", "no link", "whole"}

(***************************************************************************)
(* SpecLoad: the training state is saved, and checkpoints are loaded back  *)
(* into the live model.                                                    *)
(***************************************************************************)
\* load_ckpt never looks at the folder itself, only at the files in it.
InitLoad == CkptInit /\ ~folder /\ LoadInit /\ SimpInit /\ MeterIdle /\ FeatIdle /\ MiscIdle

NextLoad ==
    \/ \E epoch \in Epochs, is_best \in BOOLEAN : SaveCkpt(epoch, is_best)
    \/ \E path \in LoadPaths, ignores \in IgnoreLists, strict \in BOOLEAN,
          optimizer \in BOOLEAN : LoadCkpt(path, ignores, strict, optimizer)

SpecLoad == InitLoad /\ [][NextLoad]_vars

(***************************************************************************)
(* SpecSimplify: the training state is saved, and a checkpoint of the      *)
(* folder is simplified.                                                   *)
(***************************************************************************)
InitSimplify ==
    CkptInit /\ ~folder /\ LoadInit /\ SimpInit /\ MeterIdle /\ FeatIdle /\ MiscIdle

NextSimplify ==
    \/ \E epoch \in Epochs, is_best \in BOOLEAN : SaveCkpt(epoch, is_best)
    \/ \E path \in LoadPaths, ignores \in IgnoreLists :
          \E opath \in OutPaths(path) : SimplifyCkpt(path, opath, ignores)

SpecSimplify == InitSimplify /\ [][NextSimplify]_vars

(***************************************************************************)
(* SpecMeter: a meter of any length is updated and reset.                  *)
(***************************************************************************)
InitMeter == CkptIdle /\ LoadInit /\ SimpInit /\ MeterInit /\ FeatIdle /\ MiscIdle

NextMeter ==
    \/ \E v \in 0..MaxMeterVal : MeterUpdate(v)
    \/ MeterReset

SpecMeter == InitMeter /\ [][NextMeter]_vars

(***************************************************************************)
(* SpecFeat: a feature matrix is written and the file is read back with    *)
(* any count and dimension.                                                *)
(***************************************************************************)
InitFeat == CkptIdle /\ LoadInit /\ SimpInit /\ MeterIdle /\ FeatInit /\ MiscIdle

NextFeat ==
    \/ WriteFeat
    \/ \E inst_num \in -1..(MaxInst + 1), feat_dim \in 0..MaxDim :
          ReadFeat(inst_num, feat_dim)

SpecFeat == InitFeat /\ [][NextFeat]_vars

(***************************************************************************)
(* SpecMisc: normalize and save_imgs are called with any input.            *)
(***************************************************************************)
InitMisc == CkptIdle /\ LoadInit /\ SimpInit /\ MeterIdle /\ FeatIdle /\ MiscInit

NextMisc ==
    \/ \E feat \in NormInputs, axis \in Axes : Normalize(feat, axis)
    \/ \E imgs \in ImageLists : SaveImgs(imgs)

SpecMisc == InitMisc /\ [][NextMisc]_vars

(***************************************************************************)
(* Properties of load_ckpt, simplify_ckpt, the meter, the feature files,   *)
(* normalize and save_imgs, each under the specification of its facility.  *)
(***************************************************************************)
\* The state_dict of the checkpoint that save_ckpt was given.
SavedDict == trainState.state_dict
LoadCalled == loadOut.err # "not called"

\* C3: for a saved checkpoint C and a set I of keys of C.state_dict, given in
\* any order and with no optimizer, load_ckpt hands the model C.state_dict
\* without the keys of I: each key of I is gone, each other key has its value.
C3_LoadHandsDictMinusIgnores ==
    (/\ LoadCalled
     /\ loadOut.isfile
     /\ ~loadOut.optimizer
     /\ Distinct(loadOut.ignores)
     /\ Range(loadOut.ignores) \subseteq DOMAIN SavedDict)
    => /\ loadOut.reached
       /\ DOMAIN loadOut.handed = DOMAIN SavedDict \ Range(loadOut.ignores)
       /\ \A k \in DOMAIN loadOut.handed : loadOut.handed[k] = SavedDict[k]

\* A key was ignored and another key was handed over with its tensor.
C3_Witness ==
    /\ LoadCalled
    /\ loadOut.isfile
    /\ ~loadOut.optimizer
    /\ Len(loadOut.ignores) = 1
    /\ loadOut.ignores[1] \in DOMAIN SavedDict
    /\ loadOut.reached
    /\ DOMAIN loadOut.handed # {}
    /\ loadOut.err = NoErr

\* The ignore names the checkpoint does not have.
MissingIgnores == Range(loadOut.ignores) \ DOMAIN SavedDict
LoadHasMissing == LoadCalled /\ loadOut.isfile /\ MissingIgnores # {}

\* C4 as claimed: a call whose ignores list has a name that is no key of the
\* checkpoint's state_dict fails with an error naming a missing key, whatever
\* else the list holds and in whatever order, and the model is not updated.
C4_AsClaimed ==
    LoadHasMissing =>
       /\ loadOut.err # NoErr
       /\ loadOut.errKey \in MissingIgnores
       /\ ~loadOut.reached
       /\ modelParams = loadOut.before

\* Index of the first name of the list that the checkpoint does not have, and
\* of the first name before it that repeats an earlier one (0: none).
FirstMissing(ignores, keys) ==
    CHOOSE i \in DOMAIN ignores :
        /\ ignores[i] \notin keys
        /\ \A j \in 1..(i - 1) : ignores[j] \in keys
FirstRepeat(ignores, n) ==
    LET reps == {j \in 1..n : \E h \in 1..(j - 1) : ignores[h] = ignores[j]}
    IN  IF reps = {} THEN 0 ELSE CHOOSE j \in reps : \A h \in reps : j <= h

\* C4, amended: such a call always fails before load_state_dict and leaves the
\* model as it was.  With an optimizer the failure is the assertion of line
\* 90; without one it is the ValueError naming the first missing name of the
\* list, unless a name is repeated before it, and then the KeyError naming the
\* repeated name.
C4_MissingIgnoreFails ==
    LoadHasMissing =>
       LET ignores == loadOut.ignores
           m == FirstMissing(ignores, DOMAIN SavedDict)
           r == FirstRepeat(ignores, m - 1)
       IN  /\ ~loadOut.reached
           /\ modelParams = loadOut.before
           /\ loadOut.optimizer => loadOut.err = "AssertionError"
           /\ (~loadOut.optimizer /\ r = 0) =>
                 loadOut.err = "ValueError" /\ loadOut.errKey = ignores[m]
           /\ (~loadOut.optimizer /\ r # 0) =>
                 loadOut.err = "KeyError" /\ loadOut.errKey = ignores[r]

\* The missing name comes second, after a key that the loop has deleted.
C4_Witness ==
    /\ LoadHasMissing
    /\ ~loadOut.optimizer
    /\ Len(loadOut.ignores) >= 2
    /\ loadOut.ignores[1] \in DOMAIN SavedDict
    /\ loadOut.ignores[2] \notin DOMAIN SavedDict
    /\ loadOut.err = "ValueError"
    /\ loadOut.errKey = loadOut.ignores[2]

SimpCalled == simpOut.err # "not called" /\ simpOut.isfile
\* The file the input path led to, and the file the output went to.
SimpInFile == Resolve(simpOut.link, simpOut.path)
SimpOutFile == Resolve(simpOut.link, OutPath(simpOut.path, simpOut.opath))
\* The simplified checkpoint: state_dict alone, without the ignored keys.
Simplified ==
    [state_dict |-> [k \in DOMAIN SavedDict \ Range(simpOut.ignores) |-> SavedDict[k]]]
SimpWrote ==
    /\ simpOut.err = NoErr
    /\ simpOut.out = OutPath(simpOut.path, simpOut.opath)
    /\ SimpOutFile \in DOMAIN simpOut.after
    /\ simpOut.after[SimpOutFile] = [obj |-> Simplified, whole |-> TRUE]
SimpFailed == simpOut.err # NoErr /\ simpOut.out = None /\ simpOut.after = simpOut.before

\* C10 as claimed: when the state_dict has every ignore name, simplify_ckpt
\* writes the checkpoint with state_dict as its only key, less the ignored
\* keys, to opath (path + '_simplified' for an empty opath) and leaves the input
\* file unchanged; when a name is missing it fails and writes nothing.
C10_AsClaimed ==
    SimpCalled =>
       IF Range(simpOut.ignores) \subseteq DOMAIN SavedDict
       THEN /\ SimpWrote
            /\ simpOut.after[SimpInFile] = simpOut.before[SimpInFile]
       ELSE SimpFailed

\* C10, amended: when the state_dict has every ignore name and no name is listed
\* twice, the simplified checkpoint is written to opath (path + '_simplified'
\* for an empty opath) and every other file is unchanged: the input file too,
\* unless opath names it, and then the simplified checkpoint replaces it.
\* When a name is missing or listed twice the call fails and writes nothing.
C10_SimplifyWritesStateDictOnly ==
    SimpCalled =>
       IF Range(simpOut.ignores) \subseteq DOMAIN SavedDict /\ Distinct(simpOut.ignores)
       THEN /\ SimpWrote
            /\ DOMAIN simpOut.after = DOMAIN simpOut.before \cup {SimpOutFile}
            /\ \A f \in DOMAIN simpOut.before \ {SimpOutFile} :
                  simpOut.after[f] = simpOut.before[f]
            /\ SimpInFile # SimpOutFile =>
                  simpOut.after[SimpInFile] = simpOut.before[SimpInFile]
       ELSE SimpFailed

\* A training checkpoint was simplified into path + '_simplified' with a key
\* ignored and a key kept.
C10_Witness ==
    /\ SimpCalled
    /\ simpOut.err = NoErr
    /\ simpOut.opath = ""
    /\ "optimizer" \in DOMAIN trainState
    /\ Len(simpOut.ignores) = 1
    /\ DOMAIN simpOut.after[SimpOutFile].obj.state_dict # {}
    /\ simpOut.after[SimpInFile].obj = trainState

\* The last k values of a sequence, in order.
LastK(s, k) == SubSeq(s, Len(s) - k + 1, Len(s))
MinOf(a, b) == IF a <= b THEN a ELSE b

\* C5: a meter of length >= 1 holds, after any updates since the last reset,
\* the last min(updates, length) values pushed, in push order; val is the last
\* value pushed and avg the mean of the values held; update never raises.
C5_MeterKeepsLastLength ==
    length >= 1 =>
       LET k == MinOf(Len(pushed), length)
       IN  /\ Len(history) = k
           /\ history = LastK(pushed, k)
           /\ meterErr = NoErr
           /\ pushed # <<>> =>
                 /\ val = pushed[Len(pushed)]
                 /\ avg.den = k
                 /\ avg.num = SumOf(LastK(pushed, k))

\* More values than `length` were pushed, so some were evicted, and the values
\* held differ from each other.
C5_Witness ==
    /\ length >= 2
    /\ Len(pushed) >= length + 2
    /\ Len(history) = length
    /\ history[1] # history[2]
    /\ pushed[1] # history[1]

FeatRead == readOut.err # "not called"
\* read_feat was given the shape of the matrix that is in the file.
FeatReadBack ==
    /\ FeatRead
    /\ readOut.isfile
    /\ readOut.inst_num \in {featArr.shape[1], -1}
    /\ readOut.feat_dim = featArr.shape[2]

\* C6 as claimed: read_feat after write_feat(M), given M's row count (or -1)
\* and M's column count, returns M: the same shape and the same elements,
\* for every feat_dim >= 1.
C6_AsClaimed ==
    FeatReadBack =>
       /\ readOut.err = NoErr
       /\ readOut.shape = featArr.shape
       /\ readOut.data = featArr.data

\* C6, amended: for feat_dim > 1 the call returns M, shape and elements; for
\* feat_dim = 1 it returns the 1-D array of shape (instance_count,) that holds
\* the elements of M in order.
C6_RoundTrip ==
    FeatReadBack =>
       /\ readOut.err = NoErr
       /\ IF readOut.feat_dim > 1
          THEN /\ readOut.shape = featArr.shape
               /\ readOut.data = featArr.data
          ELSE /\ readOut.shape = <<featArr.shape[1]>>
               /\ \A i \in 1..featArr.shape[1] : readOut.data[i] = featArr.data[i][1]

\* A matrix of two rows and two columns that is not symmetric was read back
\* with inst_num = -1.
C6_Witness ==
    /\ FeatReadBack
    /\ readOut.inst_num = -1
    /\ readOut.err = NoErr
    /\ readOut.shape = <<2, 2>>
    /\ readOut.data[1][2] # readOut.data[2][1]

\* C7: read_feat with inst_num > 0 fails whenever the file holds fewer than
\* inst_num * feat_dim elements, for every feat_dim >= 1.
C7_ShortFileFails ==
    (/\ FeatRead
     /\ readOut.isfile
     /\ readOut.inst_num > 0
     /\ readOut.feat_dim >= 1
     /\ Len(readOut.file) < readOut.inst_num * readOut.feat_dim)
    => readOut.err # NoErr

\* C8: normalize of a 2-D array with an axis other than 0 and 1 fails with a
\* TypeError; it returns no value, None included.
C8_BadAxisRaises ==
    (/\ normOut.err # "not called"
     /\ Len(normOut.feat.shape) = 2
     /\ normOut.axis \notin {0, 1})
    => normOut.err = "TypeError"

\* C9: save_imgs of n images creates ofolder when absent, writes image i to
\* {i}.jpg for every i in 0..n-1 and returns without raising.
C9_SaveImgsReturns ==
    imgOut.err # "not called" =>
       /\ imgOut.err = NoErr
       /\ imgOut.imgs # <<>> => imgDir
       /\ \A i \in DOMAIN imgOut.imgs :
             /\ JpgName(i - 1) \in DOMAIN imgFiles
             /\ imgFiles[JpgName(i - 1)] = Jpeg(imgOut.imgs[i])

====
